---- MODULE Spec2Model ----
(***************************************************************************)
(* Model of backend/main.py: the /upload handler (upload_pdfs), the /ask   *)
(* handler (ask_question) and the helpers they call.  A handler is cut at  *)
(* its calls to the external services (Supabase storage and table, OpenAI  *)
(* embeddings and chat, Pinecone upsert and query): each call either       *)
(* returns or raises.  A Python str that the code slices, strips or joins   *)
(* is the sequence of its Unicode code points, so that slicing, strip()     *)
(* and join() are computed, not assumed: "ab c" is <<97, 98, 32, 99>>.      *)
(* A str the code only passes on (a file name, a question, an answer) is a  *)
(* TLA+ string.                                                            *)
(* upload_pdfs is suspended at its one await, file.read(); handlers of     *)
(* other requests may run meanwhile, but they share no variable with it,   *)
(* only the external services.  The model follows one request.             *)
(***************************************************************************)
EXTENDS Integers, Sequences, FiniteSets, TLC

VARIABLES
    pc,         \* position of the running handler
    handler,    \* "none", "upload" or "ask"
    nfiles,     \* len(files) of the upload request
    files,      \* the UploadFile objects the loop has taken so far, in order
    file_id,    \* file_id of the document in progress
    file_bytes, \* file_bytes, unbound until the first read() returns
    text,       \* extracted text of the document in progress
    chunks,     \* chunk_text(text) of the document in progress
    i,          \* enumerate() position in chunks (0-based, next to visit)
    vectors,    \* records built for the document in progress
    uploaded,   \* uploaded_docs
    index,      \* records held by the Pinecone index
    question,   \* payload.question
    q_emb,      \* embedding of the question
    matches,    \* query_res["matches"]
    context,    \* the joined context
    calls,      \* every call made to an external service, in order
    error,      \* the exception that left the handler, "none" if none
    response,   \* what the client receives
    ct_text,    \* chunker harness: argument text
    ct_max,     \* chunker harness: argument max_chars
    ct_out,     \* chunker harness: returned list
    ct_called   \* chunker harness: chunk_text has returned

upvars  == <<nfiles, files, file_id, file_bytes, text, chunks, i, vectors, uploaded, index>>
askvars == <<question, q_emb, matches, context>>
ctvars  == <<ct_text, ct_max, ct_out, ct_called>>
vars    == <<pc, handler, upvars, askvars, calls, error, response, ctvars>>

-----------------------------------------------------------------------------
(* Bounds of the model *)

\* Most files in one upload request.
MaxDocs == 2
\* Stand-in for max_chars=1000 of the chunk_text call in upload_pdfs, scaled
\* to the short texts of the model.
MaxChars == 2
\* Longest text and largest max_chars given to chunk_text on its own.
MaxLen == 4
MaxM == 3

\* top_k of the Pinecone query: at most this many matches come back.
TOP_K == 5

-----------------------------------------------------------------------------
(* Values *)

\* The characters str.strip() removes, those with str.isspace(): \t \n \v \f
\* \r, U+001C..U+001F, space, U+0085, U+00A0, U+1680, U+2000..U+200A,
\* U+2028, U+2029, U+202F, U+205F, U+3000.
Whitespace ==
    (9..13) \cup (28..32) \cup {133, 160, 5760} \cup (8192..8202)
        \cup {8232, 8233, 8239, 8287, 12288}

\* a local variable before and after its first assignment
Unbound == <<>>
Bound(x) == <<x>>

None == <<>>
Some(x) == <<x>>

\* The PDFs of the model, each the list of what page.extract_text() returns
\* for its pages (None for a page without extractable text): no page, an
\* image-only page, a blank page (space, form feed, no-break space), text
\* only ("abc"), blank text before, after and between non-blank text.
PageLists ==
    { <<>>,
      <<None>>,
      <<Some(<<32, 12, 160>>)>>,
      <<Some(<<97, 98, 99>>)>>,
      <<Some(<<32, 12, 160>>), Some(<<97, 98, 99>>)>>,
      <<Some(<<97, 98, 99>>), None, Some(<<32, 32, 32>>)>>,
      <<Some(<<97, 98, 99>>), Some(<<32, 10, 8195>>), Some(<<100, 101, 102>>)>> }

\* What file.read() returns: either bytes PdfReader cannot parse, or a PDF
\* with pages.
FileBytes ==
    {[valid |-> FALSE, pages |-> <<>>]}
        \cup {[valid |-> TRUE, pages |-> p] : p \in PageLists}

FileNames == {"x.pdf", "y.pdf"}

\* What the embeddings API returns for an input, when it returns: the vector
\* itself is opaque, one per input.
Embedding(input) == <<"embedding", input>>
Questions == {"q1", "q2"}
Answers == {"answer 1", "answer 2"}

FALLBACK == "I could not find relevant information in the uploaded PDFs."

\* "\n\n---\n\n"
SEPARATOR == <<10, 10, 45, 45, 45, 10, 10>>

EmptyDict == [k \in {} |-> k]

\* The shapes of a match of the query result: no metadata key, metadata
\* without a text key, metadata with the text "", "a", "b " and "\f".
MatchShapes ==
    << [id |-> "m"],
       [id |-> "m", metadata |-> [file_name |-> "x.pdf"]],
       [id |-> "m", metadata |-> [text |-> <<>>]],
       [id |-> "m", metadata |-> [text |-> <<97>>]],
       [id |-> "m", metadata |-> [text |-> <<98, 32>>]],
       [id |-> "m", metadata |-> [text |-> <<12>>]] >>

\* Every result list the query can return: at most TOP_K matches.
MatchLists ==
    UNION {{[k \in 1..n |-> MatchShapes[f[k]]] :
                f \in [1..n -> 1..Len(MatchShapes)]} : n \in 0..TOP_K}

NoResponse == [status |-> 0, uploaded |-> <<>>, answer |-> ""]
ServerError == [status |-> 500, uploaded |-> <<>>, answer |-> ""]

-----------------------------------------------------------------------------
(* Python built-ins used by the code *)

Min(a, b) == IF a < b THEN a ELSE b

\* s[lo:hi] for 0 <= lo <= hi
Slice(s, lo, hi) == SubSeq(s, lo + 1, Min(hi, Len(s)))

RECURSIVE lstrip(_)
lstrip(s) ==
    IF s # <<>> /\ Head(s) \in Whitespace THEN lstrip(Tail(s)) ELSE s

RECURSIVE rstrip(_)
rstrip(s) ==
    IF s # <<>> /\ s[Len(s)] \in Whitespace
    THEN rstrip(SubSeq(s, 1, Len(s) - 1))
    ELSE s

\* str.strip()
strip(s) == rstrip(lstrip(s))

RECURSIVE join(_, _)
\* sep.join(parts)
join(sep, parts) ==
    IF parts = <<>> THEN <<>>
    ELSE IF Len(parts) = 1 THEN parts[1]
    ELSE parts[1] \o sep \o join(sep, Tail(parts))

\* d.get(k, default)
Get(d, k, default) == IF k \in DOMAIN d THEN d[k] ELSE default

-----------------------------------------------------------------------------
(* Helper functions of main.py *)

\* page.extract_text() or ""
PageText(page) == IF page = None THEN <<>> ELSE page[1]

RECURSIVE extract_pages(_, _)
extract_pages(pages, acc) ==
    IF pages = <<>> THEN acc
    ELSE extract_pages(Tail(pages), acc \o PageText(Head(pages)))

\* extract_text_from_pdf_bytes, for bytes PdfReader can parse
extract_text_from_pdf_bytes(bytes) == extract_pages(bytes.pages, <<>>)

RECURSIVE chunk_loop(_, _, _, _)
chunk_loop(txt, max_chars, k, acc) ==
    IF k >= Len(txt) THEN acc
    ELSE chunk_loop(txt, max_chars, k + max_chars,
                    Append(acc, Slice(txt, k, k + max_chars)))

\* chunk_text with step and slice width off by one (overlapping chunks)
chunk_text_overlap(txt, max_chars) ==
    [k \in 1..((Len(txt) + max_chars - 1) \div max_chars) |->
        Slice(txt, (k - 1) * max_chars, k * max_chars + 1)]

chunk_text(txt, max_chars) == chunk_loop(txt, max_chars, 0, <<>>)

-----------------------------------------------------------------------------
(* State after start-up: no request in progress, nothing indexed *)

Call(op, doc, arg, ok, out) ==
    [op |-> op, doc |-> doc, arg |-> arg, ok |-> ok, out |-> out]

InitServer ==
    /\ pc = "idle"
    /\ handler = "none"
    /\ nfiles = 0
    /\ files = <<>>
    /\ file_id = 0
    /\ file_bytes = Unbound
    /\ text = <<>>
    /\ chunks = <<>>
    /\ i = 0
    /\ vectors = <<>>
    /\ uploaded = <<>>
    /\ index = {}
    /\ question = ""
    /\ q_emb = <<>>
    /\ matches = <<>>
    /\ context = <<>>
    /\ calls = <<>>
    /\ error = "none"
    /\ response = NoResponse

Init ==
    /\ InitServer
    /\ ct_text = <<>>
    /\ ct_max = 1
    /\ ct_out = <<>>
    /\ ct_called = FALSE

\* An exception leaves the handler: the client gets a 500.
Raise(err) ==
    /\ pc' = "failed"
    /\ error' = err
    /\ response' = ServerError

-----------------------------------------------------------------------------
(* upload_pdfs *)

\* the file of the iteration in progress
file == files[Len(files)]

path_on_bucket == <<file_id, file.filename>>

StartUpload ==
    /\ pc = "idle"
    /\ \E n \in 1..MaxDocs : nfiles' = n
    /\ handler' = "upload"
    /\ uploaded' = <<>>
    /\ pc' = "next_file"
    /\ UNCHANGED <<files, file_id, file_bytes, text, chunks, i, vectors, index>>
    /\ UNCHANGED <<askvars, calls, error, response, ctvars>>

\* for file in files: file_id = str(uuid.uuid4()); file.read() is called and
\* the handler is suspended at the await
NextFile ==
    /\ pc = "next_file"
    /\ Len(files) < nfiles
    /\ \E name \in FileNames, bytes \in FileBytes :
          files' = Append(files, [filename |-> name, content |-> bytes])
    /\ file_id' = Len(files) + 1
    /\ pc' = "read"
    /\ UNCHANGED <<nfiles, file_bytes, text, chunks, i, vectors, uploaded, index>>
    /\ UNCHANGED <<handler, askvars, calls, error, response, ctvars>>

\* the handler resumes: file_bytes = (the bytes read)
ReadFile ==
    /\ pc = "read"
    /\ file_bytes' = Bound(file.content)
    /\ pc' = "storage"
    /\ UNCHANGED <<nfiles, files, file_id, text, chunks, i, vectors, uploaded, index>>
    /\ UNCHANGED <<handler, askvars, calls, error, response, ctvars>>

\* supabase.storage.from_(SUPABASE_BUCKET).upload(...) returns
StorageUploadOk ==
    /\ pc = "storage"
    /\ calls' = Append(calls, Call("storage.upload", file_id, path_on_bucket, TRUE, None))
    /\ pc' = "extract"
    /\ UNCHANGED <<upvars, handler, askvars, error, response, ctvars>>

\* ... or raises: nothing catches it
StorageUploadRaises ==
    /\ pc = "storage"
    /\ calls' = Append(calls, Call("storage.upload", file_id, path_on_bucket, FALSE, None))
    /\ Raise("StorageWriteError")
    /\ UNCHANGED <<upvars, handler, askvars, ctvars>>

\* extract_text_from_pdf_bytes returns; chunk_text; vectors = []
ExtractOk ==
    /\ pc = "extract"
    /\ file_bytes[1].valid
    /\ text' = extract_text_from_pdf_bytes(file_bytes[1])
    /\ chunks' = chunk_text(text', MaxChars)
    /\ vectors' = <<>>
    /\ i' = 0
    /\ pc' = "chunk"
    /\ UNCHANGED <<nfiles, files, file_id, file_bytes, uploaded, index>>
    /\ UNCHANGED <<handler, askvars, calls, error, response, ctvars>>

\* PdfReader raises on bytes it cannot parse: nothing catches it
ExtractRaises ==
    /\ pc = "extract"
    /\ ~file_bytes[1].valid
    /\ Raise("ExtractionError")
    /\ UNCHANGED <<upvars, handler, askvars, calls, ctvars>>

chunk == chunks[i + 1]

\* if not chunk.strip(): continue
SkipBlankChunk ==
    /\ pc = "chunk"
    /\ i < Len(chunks)
    /\ strip(chunk) = <<>>
    /\ i' = i + 1
    /\ UNCHANGED <<pc, nfiles, files, file_id, file_bytes, text, chunks, vectors>>
    /\ UNCHANGED <<uploaded, index>>
    /\ UNCHANGED <<handler, askvars, calls, error, response, ctvars>>

VectorRecord(emb) ==
    [id |-> <<file_id, i>>,
     values |-> emb,
     metadata |-> [file_id |-> file_id, file_name |-> file.filename,
                   chunk_index |-> i, text |-> chunk]]

\* emb = get_embedding(chunk); vectors.append({...})
EmbedChunkOk ==
    /\ pc = "chunk"
    /\ i < Len(chunks)
    /\ strip(chunk) # <<>>
    /\ LET emb == Embedding(chunk)
       IN  /\ calls' = Append(calls, Call("embed", file_id, chunk, TRUE, emb))
           /\ vectors' = Append(vectors, VectorRecord(emb))
    /\ i' = i + 1
    /\ UNCHANGED <<pc, nfiles, files, file_id, file_bytes, text, chunks, uploaded, index>>
    /\ UNCHANGED <<handler, askvars, error, response, ctvars>>

EmbedChunkRaises ==
    /\ pc = "chunk"
    /\ i < Len(chunks)
    /\ strip(chunk) # <<>>
    /\ calls' = Append(calls, Call("embed", file_id, chunk, FALSE, None))
    /\ Raise("EmbeddingError")
    /\ UNCHANGED <<upvars, handler, askvars, ctvars>>

\* Pinecone upsert: a record replaces the one with its id
Upserted(idx, vecs) ==
    {r \in idx : \A k \in 1..Len(vecs) : vecs[k].id # r.id}
        \cup {vecs[k] : k \in 1..Len(vecs)}

\* if vectors: index.upsert(vectors=vectors)
UpsertOk ==
    /\ pc = "chunk"
    /\ i = Len(chunks)
    /\ vectors # <<>>
    /\ calls' = Append(calls, Call("upsert", file_id, vectors, TRUE, None))
    /\ index' = Upserted(index, vectors)
    /\ pc' = "metadata"
    /\ UNCHANGED <<nfiles, files, file_id, file_bytes, text, chunks, i, vectors, uploaded>>
    /\ UNCHANGED <<handler, askvars, error, response, ctvars>>

UpsertRaises ==
    /\ pc = "chunk"
    /\ i = Len(chunks)
    /\ vectors # <<>>
    /\ calls' = Append(calls, Call("upsert", file_id, vectors, FALSE, None))
    /\ Raise("IndexError")
    /\ UNCHANGED <<upvars, handler, askvars, ctvars>>

\* upsert called although vectors is empty
UpsertEmptyBatch ==
    /\ pc = "chunk"
    /\ i = Len(chunks)
    /\ vectors = <<>>
    /\ calls' = Append(calls, Call("upsert", file_id, vectors, TRUE, None))
    /\ pc' = "metadata"
    /\ UNCHANGED <<upvars, handler, askvars, error, response, ctvars>>

\* vectors is empty: no upsert call
SkipUpsert ==
    /\ pc = "chunk"
    /\ i = Len(chunks)
    /\ vectors = <<>>
    /\ pc' = "metadata"
    /\ UNCHANGED <<upvars, handler, askvars, calls, error, response, ctvars>>

metadata_row ==
    [id |-> file_id, file_name |-> file.filename, storage_path |-> path_on_bucket]

\* summary entry counting the indexed records instead of the chunks
SummaryEntryIndexedOnly ==
    [file_id |-> file_id, file_name |-> file.filename, chunks |-> Len(vectors)]

\* {"file_id": file_id, "file_name": file.filename, "chunks": len(chunks)}
SummaryEntry ==
    [file_id |-> file_id, file_name |-> file.filename, chunks |-> Len(chunks)]

\* supabase.table("documents").insert(...).execute() returns;
\* uploaded_docs.append(...)
MetadataInsertOk ==
    /\ pc = "metadata"
    /\ calls' = Append(calls, Call("insert", file_id, metadata_row, TRUE, None))
    /\ uploaded' = Append(uploaded, SummaryEntry)
    /\ pc' = "next_file"
    /\ UNCHANGED <<nfiles, files, file_id, file_bytes, text, chunks, i, vectors, index>>
    /\ UNCHANGED <<handler, askvars, error, response, ctvars>>

\* the insert raises and the exception leaves the handler
MetadataInsertPropagates ==
    /\ pc = "metadata"
    /\ calls' = Append(calls, Call("insert", file_id, metadata_row, FALSE, None))
    /\ Raise("MetadataWriteError")
    /\ UNCHANGED <<upvars, handler, askvars, ctvars>>

\* ... or raises: except Exception prints it; uploaded_docs.append(...)
MetadataInsertCaught ==
    /\ pc = "metadata"
    /\ calls' = Append(calls, Call("insert", file_id, metadata_row, FALSE, None))
    /\ uploaded' = Append(uploaded, SummaryEntry)
    /\ pc' = "next_file"
    /\ UNCHANGED <<nfiles, files, file_id, file_bytes, text, chunks, i, vectors, index>>
    /\ UNCHANGED <<handler, askvars, error, response, ctvars>>

\* return {"status": "ok", "uploaded": uploaded_docs}
ReturnUpload ==
    /\ pc = "next_file"
    /\ Len(files) = nfiles
    /\ response' = [status |-> 200, uploaded |-> uploaded, answer |-> ""]
    /\ pc' = "done"
    /\ UNCHANGED <<upvars, handler, askvars, calls, error, ctvars>>

-----------------------------------------------------------------------------
(* ask_question *)

StartAsk ==
    /\ pc = "idle"
    /\ \E q \in Questions : question' = q
    /\ handler' = "ask"
    /\ pc' = "q_embed"
    /\ UNCHANGED <<upvars, q_emb, matches, context, calls, error, response, ctvars>>

\* q_emb = get_embedding(question)
AskEmbedOk ==
    /\ pc = "q_embed"
    /\ LET emb == Embedding(question)
       IN  /\ calls' = Append(calls, Call("embed", 0, question, TRUE, emb))
           /\ q_emb' = emb
    /\ pc' = "query"
    /\ UNCHANGED <<upvars, handler, question, matches, context, error, response, ctvars>>

AskEmbedRaises ==
    /\ pc = "q_embed"
    /\ calls' = Append(calls, Call("embed", 0, question, FALSE, None))
    /\ Raise("EmbeddingError")
    /\ UNCHANGED <<upvars, handler, askvars, ctvars>>

\* md = match.get("metadata", {}); text = md.get("text", "")
MatchText(match) == Get(Get(match, "metadata", EmptyDict), "text", <<>>)

\* context_parts, in the order of the matches
ContextParts(ms) == [k \in 1..Len(ms) |-> MatchText(ms[k])]

\* the parts joined in reverse order
BuildContextReversed(ms) ==
    join(SEPARATOR, [k \in 1..Len(ms) |-> MatchText(ms[Len(ms) + 1 - k])])

\* "\n\n---\n\n".join(context_parts)
BuildContext(ms) == join(SEPARATOR, ContextParts(ms))

\* index.query(...) returns; the context is built; an empty context after
\* strip() returns the fixed answer, any other goes on to generate_answer
QueryOk ==
    /\ pc = "query"
    /\ \E ms \in MatchLists :
          /\ calls' = Append(calls, Call("query", 0, q_emb, TRUE, ms))
          /\ matches' = ms
          /\ context' = BuildContext(ms)
    /\ IF strip(context') = <<>>
       THEN /\ response' = [status |-> 200, uploaded |-> <<>>, answer |-> FALLBACK]
            /\ pc' = "done"
       ELSE /\ response' = response
            /\ pc' = "generate"
    /\ UNCHANGED <<upvars, handler, question, q_emb, error, ctvars>>

QueryRaises ==
    /\ pc = "query"
    /\ calls' = Append(calls, Call("query", 0, q_emb, FALSE, None))
    /\ Raise("IndexError")
    /\ UNCHANGED <<upvars, handler, askvars, ctvars>>

\* answer = generate_answer(question, context); return AskResponse(answer=answer)
GenerateOk ==
    /\ pc = "generate"
    /\ \E a \in Answers :
          /\ calls' = Append(calls, Call("generate", 0, <<question, context>>, TRUE, a))
          /\ response' = [status |-> 200, uploaded |-> <<>>, answer |-> a]
    /\ pc' = "done"
    /\ UNCHANGED <<upvars, handler, askvars, error, ctvars>>

\* the chat call raises and the fixed answer is returned in its place
GenerateRaisesFallback ==
    /\ pc = "generate"
    /\ calls' = Append(calls, Call("generate", 0, <<question, context>>, FALSE, None))
    /\ response' = [status |-> 200, uploaded |-> <<>>, answer |-> FALLBACK]
    /\ pc' = "done"
    /\ UNCHANGED <<upvars, handler, askvars, error, ctvars>>

GenerateRaises ==
    /\ pc = "generate"
    /\ calls' = Append(calls, Call("generate", 0, <<question, context>>, FALSE, None))
    /\ Raise("GenerationError")
    /\ UNCHANGED <<upvars, handler, askvars, ctvars>>

-----------------------------------------------------------------------------
(* The server handling one request *)

Next ==
    \/ StartUpload
    \/ NextFile
    \/ ReadFile
    \/ StorageUploadOk
    \/ StorageUploadRaises
    \/ ExtractOk
    \/ ExtractRaises
    \/ SkipBlankChunk
    \/ EmbedChunkOk
    \/ EmbedChunkRaises
    \/ UpsertOk
    \/ UpsertRaises
    \/ SkipUpsert
    \/ MetadataInsertOk
    \/ MetadataInsertCaught
    \/ ReturnUpload
    \/ StartAsk
    \/ AskEmbedOk
    \/ AskEmbedRaises
    \/ QueryOk
    \/ QueryRaises
    \/ GenerateOk
    \/ GenerateRaises

Spec == Init /\ [][Next]_vars

-----------------------------------------------------------------------------
(* chunk_text on its own: any text, any positive max_chars *)

\* "a", "b", " "
Chars == {97, 98, 32}

Texts == UNION {[1..n -> Chars] : n \in 0..MaxLen}

ChunkInit ==
    /\ InitServer
    /\ ct_text \in Texts
    /\ ct_max \in 1..MaxM
    /\ ct_out = <<>>
    /\ ct_called = FALSE

CallChunkText ==
    /\ ~ct_called
    /\ ct_out' = chunk_text(ct_text, ct_max)
    /\ ct_called' = TRUE
    /\ UNCHANGED <<pc, handler, upvars, askvars, calls, error, response, ct_text, ct_max>>

ChunkNext == CallChunkText

ChunkSpec == ChunkInit /\ [][ChunkNext]_vars

-----------------------------------------------------------------------------
(* Vocabulary of the properties *)

RequestEnded == pc \in {"done", "failed"}

CallsOf(op, d) == {k \in 1..Len(calls) : calls[k].op = op /\ calls[k].doc = d}

FailedCalls == {k \in 1..Len(calls) : ~calls[k].ok}

RecordsOf(d) == {r \in index : r.metadata.file_id = d}

\* every character of s is white space (Unicode White_Space, and the
\* separators U+001C..U+001F)
IsBlank(s) ==
    \A k \in 1..Len(s) :
        \/ s[k] \in {9, 10, 11, 12, 13, 28, 29, 30, 31, 32, 133, 160, 5760}
        \/ s[k] >= 8192 /\ s[k] <= 8202
        \/ s[k] \in {8232, 8233, 8239, 8287, 12288}

CeilDiv(a, b) == (a + b - 1) \div b

\* the text of document d and its non-blank chunks, from the bytes uploaded
DocText(d) ==
    IF files[d].content.valid
    THEN extract_text_from_pdf_bytes(files[d].content)
    ELSE <<>>

DocChunk(d, k) ==
    SubSeq(DocText(d), k * MaxChars + 1, Min((k + 1) * MaxChars, Len(DocText(d))))

DocChunkCount(d) == CeilDiv(Len(DocText(d)), MaxChars)

NonBlankChunks(d) == {k \in 0..(DocChunkCount(d) - 1) : ~IsBlank(DocChunk(d, k))}

\* document d came out of the loop body: its summary entry is appended
Ingested(d) ==
    \/ d < Len(files)
    \/ d = Len(files) /\ pc \in {"next_file", "done"}

\* every chunk of document d was visited and no embedding call raised
EmbeddingDone(d) ==
    \/ Ingested(d)
    \/ d = Len(files) /\ (pc = "metadata" \/ error = "IndexError")

HasEntry(list, d) ==
    \E k \in 1..Len(list) : list[k].file_id = d /\ list[k].file_name = files[d].filename

Indexed(d) ==
    \A k \in NonBlankChunks(d) :
        \E r \in index : r.id = <<d, k>> /\ r.metadata.text = DocChunk(d, k)

Textless(m) ==
    \/ "metadata" \notin DOMAIN m
    \/ "text" \notin DOMAIN m.metadata
    \/ m.metadata.text = <<>>

QueryReturned == \E k \in 1..Len(calls) : calls[k].op = "query" /\ calls[k].ok

-----------------------------------------------------------------------------
(* C1 *)

\* C1: ingestion isolation. When the extraction of one document of a batch
\* fails and that of another succeeds, the request still goes through the
\* whole batch and returns its summary list, and every document of the batch
\* whose extraction succeeds has its non-blank chunks in the vector index
\* and its entry in the returned summary.
C1_IngestionIsolation ==
    (/\ handler = "upload"
     /\ error = "ExtractionError"
     /\ \E b \in 1..Len(files) : NonBlankChunks(b) # {}) =>
        /\ response.status = 200
        /\ Len(files) = nfiles
        /\ \A b \in 1..Len(files) :
              files[b].content.valid =>
                  Indexed(b) /\ HasEntry(response.uploaded, b)

-----------------------------------------------------------------------------
(* C2 *)

\* C2: empty-context fallback. Once the vector query has returned matches
\* that are all without text (no match at all, or every match with an empty
\* or missing text), the request is answered with the fixed fallback answer
\* and the generative collaborator is not called.
C2_EmptyContextFallback ==
    (handler = "ask" /\ QueryReturned
        /\ \A k \in 1..Len(matches) : Textless(matches[k])) =>
        /\ pc = "done"
        /\ response.status = 200
        /\ response.answer = FALLBACK
        /\ CallsOf("generate", 0) = {}

-----------------------------------------------------------------------------
(* C3 *)

\* C3: chunk_index contiguity. The records of every upsert batch carry the
\* chunk_index values 0, 1, ..., N-1 in that order, their ids end in the same
\* index, and the chunk_index values indexed for a document are exactly
\* 0..N-1 for its N records, also when blank chunks were skipped.
C3_ChunkIndexContiguity ==
    /\ \A c \in 1..Len(calls) :
          calls[c].op = "upsert" =>
              \A k \in 1..Len(calls[c].arg) :
                  /\ calls[c].arg[k].metadata.chunk_index = k - 1
                  /\ calls[c].arg[k].id = <<calls[c].doc, k - 1>>
    /\ \A d \in 1..Len(files) :
          {r.metadata.chunk_index : r \in RecordsOf(d)}
              = 0..(Cardinality(RecordsOf(d)) - 1)

-----------------------------------------------------------------------------
(* C4 *)

RECURSIVE Flatten(_)
Flatten(ss) == IF ss = <<>> THEN <<>> ELSE Head(ss) \o Flatten(Tail(ss))

\* C4: chunker partition. For every text T and positive max_chars M the
\* chunks returned by chunk_text(T, M) concatenate to T, each has between 1
\* and M characters, and there are ceil(len(T)/M) of them (none for empty T).
C4_ChunkerPartition ==
    ct_called =>
        /\ Flatten(ct_out) = ct_text
        /\ \A k \in 1..Len(ct_out) :
              Len(ct_out[k]) >= 1 /\ Len(ct_out[k]) <= ct_max
        /\ Len(ct_out) = CeilDiv(Len(ct_text), ct_max)
        /\ (ct_text = <<>> => ct_out = <<>>)

\* a text cut into full chunks and a shorter last one
C4_Witness ==
    /\ ct_called
    /\ Len(ct_out) >= 2
    /\ Len(ct_out[Len(ct_out)]) < ct_max
    /\ Len(ct_out[1]) = ct_max

-----------------------------------------------------------------------------
(* C5 *)

\* C5: storage write failure is non-fatal. A failed blob-store write never
\* leaves the handler as an exception: the request still returns its summary
\* list, and the document whose write failed, once ingested, has its
\* non-blank chunks indexed and its entry in the summary.
C5_StorageFailureNonFatal ==
    \A k \in 1..Len(calls) :
        (/\ calls[k].op = "storage.upload"
         /\ ~calls[k].ok
         /\ files[calls[k].doc].content.valid) =>
            /\ error # "StorageWriteError"
            /\ pc # "failed"
            /\ (pc = "done" =>
                   /\ response.status = 200
                   /\ HasEntry(response.uploaded, calls[k].doc)
                   /\ Indexed(calls[k].doc))

-----------------------------------------------------------------------------
(* C6 *)

\* C6: metadata write failure is non-fatal. A failed metadata insert never
\* leaves the handler as an exception: the records upserted for the document
\* before the insert are in the index, the document's summary entry is in
\* uploaded_docs (and in the response once the request returns), and the
\* loop has gone on to its next iteration.
C6_MetadataFailureNonFatal ==
    \A k \in 1..Len(calls) :
        (calls[k].op = "insert" /\ ~calls[k].ok) =>
            /\ error # "MetadataWriteError"
            /\ HasEntry(uploaded, calls[k].doc)
            /\ \A u \in CallsOf("upsert", calls[k].doc) :
                  (u < k /\ calls[u].ok) =>
                      \A n \in 1..Len(calls[u].arg) : calls[u].arg[n] \in index
            /\ Ingested(calls[k].doc)
            /\ (pc = "done" =>
                   response.status = 200 /\ HasEntry(response.uploaded, calls[k].doc))

\* a batch of two returned, the first document indexed and its insert failed
C6_Witness ==
    /\ pc = "done"
    /\ Len(response.uploaded) = 2
    /\ \E k \in CallsOf("insert", 1) : ~calls[k].ok
    /\ RecordsOf(1) # {}
    /\ RecordsOf(2) # {}

-----------------------------------------------------------------------------
(* C7 *)

\* C7: single batch upsert per document. For every document the upsert is
\* called at most once, with a non-empty batch, after one successful
\* embedding call per non-blank chunk and after every embedding call of the
\* document; a document without a non-blank chunk causes no embedding call
\* and no upsert call; a document whose chunks were all visited without an
\* embedding failure had the upsert called exactly when it has a non-blank
\* chunk; and a failed embedding call leaves no record of the document in
\* the index and no upsert call.
C7_SingleBatchUpsert ==
    \A d \in 1..Len(files) :
        LET U == CallsOf("upsert", d)
            E == CallsOf("embed", d)
        IN  /\ Cardinality(U) <= 1
            /\ \A u \in U :
                  /\ calls[u].arg # <<>>
                  /\ \A e \in E : e < u /\ calls[e].ok
                  /\ Cardinality(E) = Cardinality(NonBlankChunks(d))
                  /\ Len(calls[u].arg) = Cardinality(NonBlankChunks(d))
            /\ (NonBlankChunks(d) = {} => E = {} /\ U = {})
            /\ (EmbeddingDone(d) => (U # {} <=> NonBlankChunks(d) # {}))
            /\ ((\E e \in E : ~calls[e].ok) => RecordsOf(d) = {} /\ U = {})

\* one document with two non-blank chunks and a blank one upserted in one
\* call, another all whitespace with chunks but neither embedding nor upsert
C7_Witness ==
    /\ pc = "done"
    /\ \E d1, d2 \in 1..Len(files) :
          /\ Cardinality(CallsOf("upsert", d1)) = 1
          /\ Cardinality(NonBlankChunks(d1)) >= 2
          /\ Cardinality(NonBlankChunks(d1)) < DocChunkCount(d1)
          /\ DocChunkCount(d2) >= 1
          /\ NonBlankChunks(d2) = {}
          /\ CallsOf("upsert", d2) = {}
          /\ CallsOf("embed", d2) = {}

-----------------------------------------------------------------------------
(* C8 *)

TextOf(m) == IF Textless(m) THEN <<>> ELSE m.metadata.text

RECURSIVE Offset(_, _)
\* where the text of match k starts in the context (0-based)
Offset(ms, k) ==
    IF k = 1 THEN 0 ELSE Offset(ms, k - 1) + Len(TextOf(ms[k - 1])) + 7

\* ctx is the texts of ms in order, each followed, but for the last, by the
\* separator
IsContextOf(ctx, ms) ==
    /\ Len(ctx) = IF ms = <<>> THEN 0
                  ELSE Offset(ms, Len(ms)) + Len(TextOf(ms[Len(ms)]))
    /\ \A k \in 1..Len(ms) :
          /\ SubSeq(ctx, Offset(ms, k) + 1, Offset(ms, k) + Len(TextOf(ms[k])))
                = TextOf(ms[k])
          /\ k < Len(ms) =>
                SubSeq(ctx, Offset(ms, k) + Len(TextOf(ms[k])) + 1, Offset(ms, k + 1))
                    = <<10, 10, 45, 45, 45, 10, 10>>

\* C8: context assembly ordering. The context built from the matches the
\* query returned, and passed with the question to the generative
\* collaborator, is the matches' texts in the order returned, none dropped
\* or merged, joined by "\n\n---\n\n"; a match without a text counts as the
\* empty string.
C8_ContextAssembly ==
    /\ (handler = "ask" /\ QueryReturned) => IsContextOf(context, matches)
    /\ \A g \in CallsOf("generate", 0) :
          /\ calls[g].arg[1] = question
          /\ \E q \in CallsOf("query", 0) :
                calls[q].ok /\ q < g /\ IsContextOf(calls[g].arg[2], calls[q].out)

\* the generative call made for matches whose texts differ, one without
\* metadata, not in alphabetical order
C8_Witness ==
    /\ CallsOf("generate", 0) # {}
    /\ Len(matches) >= 3
    /\ \E a, b, c \in 1..Len(matches) :
          /\ a < b /\ b < c
          /\ TextOf(matches[a]) = <<98, 32>>
          /\ "metadata" \notin DOMAIN matches[b]
          /\ TextOf(matches[c]) = <<97>>

-----------------------------------------------------------------------------
(* C9 *)

\* C9: ingestion summary. An upload request in which no call fails returns,
\* and the summary list of a request that returns has one entry per input
\* document, in input order, each with the document's id and file name and
\* with the number of chunks the chunker produced, blank ones included,
\* which is at least the number of records indexed for the document.
C9_IngestionSummary ==
    /\ (handler = "upload" /\ FailedCalls = {} /\ error = "none" /\ RequestEnded)
          => pc = "done"
    /\ (handler = "upload" /\ pc = "done") =>
          /\ response.status = 200
          /\ Len(files) = nfiles
          /\ Len(response.uploaded) = nfiles
          /\ \A d \in 1..nfiles :
                /\ response.uploaded[d].file_id = d
                /\ response.uploaded[d].file_name = files[d].filename
                /\ response.uploaded[d].chunks = DocChunkCount(d)
                /\ response.uploaded[d].chunks >= Cardinality(RecordsOf(d))

\* two documents with different names returned without any failure, one of
\* them with more chunks than indexed records
C9_Witness ==
    /\ handler = "upload"
    /\ pc = "done"
    /\ FailedCalls = {}
    /\ nfiles = 2
    /\ files[1].filename # files[2].filename
    /\ response.uploaded[1].chunks > Cardinality(RecordsOf(1))
    /\ RecordsOf(1) # {}
    /\ response.uploaded[2].chunks # response.uploaded[1].chunks

-----------------------------------------------------------------------------
(* C10 *)

\* C10: ask call sequence without retries. An ask request calls the
\* embedding, the vector query and the generative collaborator at most once
\* each, in that order; a call that fails is the last one, the request then
\* fails with no answer, and a request fails only so; when the generative
\* call returns, its output is the answer.
C10_AskCallSequence ==
    handler = "ask" =>
        /\ Len(calls) <= 3
        /\ \A k \in 1..Len(calls) :
              /\ calls[k].op = <<"embed", "query", "generate">>[k]
              /\ (k < Len(calls) => calls[k].ok)
        /\ \A k \in CallsOf("embed", 0) : calls[k].arg = question
        /\ (FailedCalls # {} =>
               pc = "failed" /\ response.status = 500 /\ response.answer = "")
        /\ (pc = "failed" => FailedCalls # {})
        /\ \A g \in CallsOf("generate", 0) :
              calls[g].ok =>
                  /\ pc = "done"
                  /\ response.status = 200
                  /\ response.answer = calls[g].out

\* the three calls made and the generated answer returned
C10_Witness ==
    /\ handler = "ask"
    /\ pc = "done"
    /\ Len(calls) = 3
    /\ calls[3].ok
    /\ response.answer = "answer 2"

====
